---------------------------- MODULE Spec2Model ----------------------------
(***************************************************************************)
(* A model of ProductScraper (src/scraper.py): one process fetches a page  *)
(* with a browser session, classifies it as a listing or a detail page,    *)
(* extracts records from the parsed tree, prints them and appends them to  *)
(* scraped_products.csv.                                                   *)
(*                                                                         *)
(* Representation.                                                         *)
(*   text      a sequence of tokens; a token is one character or one       *)
(*             indivisible word; " " is the whitespace token.              *)
(*   optional  None is <<>>, a present value x is <<x>>.                   *)
(*   dict      a function from key strings to values; {} is the function   *)
(*             with the empty domain, d[k] raises KeyError iff             *)
(*             k \notin DOMAIN d.                                          *)
(*   tree      the parsed page keeps exactly the elements the selectors    *)
(*             of the source look for.                                     *)
(***************************************************************************)
EXTENDS Integers, Sequences, FiniteSets, TLC

VARIABLES
    pc,             \* position of the process in scrape() / fetch_content()
    runs,           \* number of processes started so far on this output file
    driver,         \* browser session: "none", "open" or "quit"
    page_source,    \* local of fetch_content: the markup read from the driver
    html_content,   \* local of scrape(): optional markup
    soup,           \* local of scrape(): optional parsed tree
    products_data,  \* self.products_data
    pagetype,       \* self.pagetype
    log,            \* calls made and messages printed by scrape() in this run
    file            \* scraped_products.csv

vars == <<pc, runs, driver, page_source, html_content, soup,
          products_data, pagetype, log, file>>

---------------------------------------------------------------------------
(* Optional values and texts *)

None == <<>>

Some(x) == <<x>>

NA == <<"N", "/", "A">>

EmptyDict == [k \in {} |-> None]

Min(a, b) == IF a < b THEN a ELSE b

Max(a, b) == IF a < b THEN b ELSE a

RECURSIVE LStrip(_, _)
LStrip(t, chars) ==
    IF t # <<>> /\ Head(t) \in chars THEN LStrip(Tail(t), chars) ELSE t

RECURSIVE RStrip(_, _)
RStrip(t, chars) ==
    IF t # <<>> /\ t[Len(t)] \in chars
    THEN RStrip(SubSeq(t, 1, Len(t) - 1), chars)
    ELSE t

\* str.strip(chars): leading and trailing characters of chars removed
StripChars(t, chars) == RStrip(LStrip(t, chars), chars)

\* tag.get_text(strip=True) of an element holding one text node
get_text_strip(t) == StripChars(t, {" "})

\* str.replace(tok, ''): every occurrence of the token removed
RECURSIVE Remove(_, _)
Remove(t, tok) ==
    IF t = <<>> THEN <<>>
    ELSE IF Head(t) = tok THEN Remove(Tail(t), tok)
    ELSE <<Head(t)>> \o Remove(Tail(t), tok)

LowerTok(c) ==
    CASE c \in {"Location", "LOCATION"} -> "location"
      [] c \in {"Size", "SIZE"} -> "size"
      [] c = "Other" -> "other"
      [] OTHER -> c

\* str.lower()
Lower(t) == [i \in 1..Len(t) |-> LowerTok(t[i])]

Contains(t, tok) == \E i \in 1..Len(t) : t[i] = tok

\* str.split(tok)[-1]: what follows the last occurrence of tok
AfterLast(t, tok) ==
    IF Contains(t, tok)
    THEN LET i == CHOOSE j \in 1..Len(t) :
                     t[j] = tok /\ \A k \in (j+1)..Len(t) : t[k] # tok
         IN SubSeq(t, i + 1, Len(t))
    ELSE t

RECURSIVE SelectTag(_, _)
\* find_all(tag) over a sequence of cells
SelectTag(cells, tag) ==
    IF cells = <<>> THEN <<>>
    ELSE IF Head(cells).tag = tag
         THEN <<Head(cells)>> \o SelectTag(Tail(cells), tag)
         ELSE SelectTag(Tail(cells), tag)

RECURSIVE Flatten(_)
Flatten(ss) == IF ss = <<>> THEN <<>> ELSE Head(ss) \o Flatten(Tail(ss))

\* list.index(x): the first position of x
IndexOf(s, x) == CHOOSE i \in 1..Len(s) : s[i] = x /\ \A j \in 1..(i-1) : s[j] # x

---------------------------------------------------------------------------
(* Field Extractor *)

\* extract_text: tag is an optional text
extract_text(tag) == IF tag # None THEN get_text_strip(tag[1]) ELSE NA

---------------------------------------------------------------------------
(* Size Parser: re.search of                                               *)
(*   (\d+(\.\d+)?)\s*["'“”]?\s*[Xx]\s*(\d+(\.\d+)?)\s*["'“”]?              *)
(* The curly quotes are the tokens "ldquo" and "rdquo".                    *)

IsDigit(c) == c \in {"0", "1", "2", "3", "4", "5", "6", "7", "8", "9"}

IsQuote(c) == c \in {"\"", "'", "ldquo", "rdquo"}

IsX(c) == c \in {"X", "x"}

At(s, i) == IF i \in 1..Len(s) THEN s[i] ELSE "EOS"

RECURSIVE DigitsEnd(_, _)
\* \d+ from position i, greedy: the position after the run of digits
DigitsEnd(s, i) == IF IsDigit(At(s, i)) THEN DigitsEnd(s, i + 1) ELSE i

\* \d+(\.\d+)? from position i: the position after it, 0 when there is no digit
NumberEnd(s, i) ==
    IF ~IsDigit(At(s, i)) THEN 0
    ELSE LET j == DigitsEnd(s, i)
         IN IF At(s, j) = "." /\ IsDigit(At(s, j + 1))
            THEN DigitsEnd(s, j + 1)
            ELSE j

RECURSIVE SpacesEnd(_, _)
\* \s* from position i
SpacesEnd(s, i) == IF At(s, i) = " " THEN SpacesEnd(s, i + 1) ELSE i

\* \s*["'“”]?\s* from position i
GapEnd(s, i) ==
    LET j == SpacesEnd(s, i)
    IN IF IsQuote(At(s, j)) THEN SpacesEnd(s, j + 1) ELSE j

\* the match anchored at position i: <<ok, group(1), group(3)>>
MatchAt(s, i) ==
    LET e1 == NumberEnd(s, i)
        x  == IF e1 = 0 THEN 0 ELSE GapEnd(s, e1)
        b3 == IF x # 0 /\ IsX(At(s, x)) THEN SpacesEnd(s, x + 1) ELSE 0
        e3 == IF b3 = 0 THEN 0 ELSE NumberEnd(s, b3)
    IN IF e3 = 0 THEN <<FALSE, None, None>>
       ELSE <<TRUE, Some(SubSeq(s, i, e1 - 1)), Some(SubSeq(s, b3, e3 - 1))>>

\* extract_size: <<width, height>>, both None when nothing matches
extract_size(size_text) ==
    LET starts == {i \in 1..Len(size_text) : MatchAt(size_text, i)[1]}
    IN IF starts = {} THEN <<None, None>>
       ELSE LET i == CHOOSE j \in starts : \A k \in starts : j <= k
                m == MatchAt(size_text, i)
            IN <<m[2], m[3]>>

\* truthiness of an optional text (None and '' are falsy)
Truthy(opt) == opt # None /\ opt[1] # <<>>


---------------------------------------------------------------------------
(* The parsed tree.                                                        *)
(*   soup   [listHolder, productDetail, printMethods], each optional       *)
(*   listHolder    [cards]; a card is [a, ps, strong]: its first           *)
(*                 a.link-item (optional text), its p.link-item texts in   *)
(*                 document order, its first strong.currency               *)
(*   productDetail [skuP, sizeH5, pricetable]: the p with the "Item ID"    *)
(*                 class signature (optional text), the h5 "Size:"         *)
(*                 (optional [next], next the optional following text      *)
(*                 node), the table.pricetable (optional [thead, tbody]:   *)
(*                 thead an optional sequence of cells, tbody an optional  *)
(*                 sequence of rows of cells, a cell being [tag, text])    *)
(*   printMethods  [headings, panels]: a heading is [button], button an    *)
(*                 optional [text, target]; a panel is [id, tables]; a     *)
(*                 table is a sequence of tr, each [ths, tds]              *)

\* find(...) over a sequence: the first element, or None
First(s) == IF s # <<>> THEN Some(s[1]) ELSE None

\* s[1:]
Rest(s) == IF s = <<>> THEN <<>> ELSE Tail(s)

---------------------------------------------------------------------------
(* Listing Extractor *)

\* the first p.link-item taken in the place of the second
extract_sku_First(product) ==
    LET sku_tag == IF Len(product.ps) > 0 THEN Some(product.ps[1]) ELSE None
    IN extract_text(sku_tag)

\* extract_sku: the second p.link-item when there are at least two
extract_sku(product) ==
    LET sku_tag == IF Len(product.ps) > 1 THEN Some(product.ps[2]) ELSE None
    IN extract_text(sku_tag)

ListingRecord(product) ==
    ("Product Name" :> extract_text(product.a)) @@
    ("Product Description" :> extract_text(First(product.ps))) @@
    ("SKU" :> extract_sku(product)) @@
    ("Price" :> extract_text(product.strong))

\* lines 55-68: one record per product card, in document order
ListingRecords(cards) == [i \in 1..Len(cards) |-> ListingRecord(cards[i])]

\* parse_listing_page: [] when the root is missing (ValueError, caught)
parse_listing_page(sp) ==
    IF sp.listHolder = None THEN <<>>
    ELSE ListingRecords(sp.listHolder[1].cards)

---------------------------------------------------------------------------
(* Detail Extractor *)

extract_sku_detail(product_detail) ==
    LET sku_tag == product_detail.skuP
    IN IF sku_tag # None /\ Contains(sku_tag[1], "Item ID:")
       THEN StripChars(AfterLast(get_text_strip(sku_tag[1]), "Item ID:"), {" "})
       ELSE NA

\* extract_item_size: a heading without a following text node raises
\* AttributeError on None.strip(), caught, 'N/A'
extract_item_size(product_detail) ==
    LET size_tag == product_detail.sizeH5
    IN IF size_tag = None THEN NA
       ELSE IF size_tag[1].next = None THEN NA
       ELSE StripChars(size_tag[1].next[1], {" "})

Location(name, width, height) ==
    ("Location" :> name) @@ ("Width" :> width[1]) @@ ("Height" :> height[1])

\* lines 172-177 without the test of line 176
RowLocations_Unchecked(row, location_index, size_index) ==
    LET columns == row.tds
    IN IF Len(columns) > Max(location_index, size_index)
       THEN LET wh == extract_size(extract_text(Some(columns[size_index + 1])))
            IN <<("Location" :> extract_text(Some(columns[location_index + 1]))) @@
                 ("Width" :> IF Truthy(wh[1]) THEN wh[1][1] ELSE NA) @@
                 ("Height" :> IF Truthy(wh[2]) THEN wh[2][1] ELSE NA)>>
       ELSE <<>>

\* lines 172-177: the location of one data row, as a sequence of 0 or 1 locations
RowLocations(row, location_index, size_index) ==
    LET columns == row.tds
    IN IF Len(columns) > Max(location_index, size_index)
       THEN LET location_name == extract_text(Some(columns[location_index + 1]))
                size_text == extract_text(Some(columns[size_index + 1]))
                wh == extract_size(size_text)
            IN IF Truthy(wh[1]) /\ Truthy(wh[2])
               THEN <<Location(location_name, wh[1], wh[2])>>
               ELSE <<>>
       ELSE <<>>

RECURSIVE RowsLocations(_, _, _)
RowsLocations(rows, location_index, size_index) ==
    IF rows = <<>> THEN <<>>
    ELSE RowLocations(Head(rows), location_index, size_index)
         \o RowsLocations(Tail(rows), location_index, size_index)

RECURSIVE FindPanel(_, _)
\* imprint_areas_section.find('div', id=...)
FindPanel(panels, id) ==
    IF panels = <<>> THEN None
    ELSE IF Head(panels).id = id THEN Some(Head(panels))
    ELSE FindPanel(Tail(panels), id)

TableHeaders(table) ==
    LET ths == Flatten([i \in 1..Len(table) |-> table[i].ths])
    IN [i \in 1..Len(ths) |-> Lower(get_text_strip(ths[i]))]

extract_locations(imprint_areas_section, collapse_id) ==
    LET collapse_section ==
            FindPanel(imprint_areas_section.panels, StripChars(collapse_id, {"#"}))
    IN IF collapse_section = None THEN <<>>
       ELSE LET location_tables == collapse_section[1].tables
            IN IF Len(location_tables) < 3 THEN <<>>
               ELSE LET third_table == location_tables[3]
                        headers == TableHeaders(third_table)
                    IN IF ~Contains(headers, <<"location">>)
                          \/ ~Contains(headers, <<"size">>)
                       THEN <<>>
                       ELSE RowsLocations(Rest(third_table),
                                          IndexOf(headers, <<"location">>) - 1,
                                          IndexOf(headers, <<"size">>) - 1)

\* lines 138-144: the method record of one heading
MethodDetails(imprint_areas_section, heading) ==
    LET button == heading.button
        method_name == IF button # None THEN get_text_strip(button[1].text) ELSE NA
        collapse_id == IF button # None THEN Some(button[1].target) ELSE None
    IN ("Method" :> method_name) @@
       ("Locations" :> IF Truthy(collapse_id)
                       THEN extract_locations(imprint_areas_section, collapse_id[1])
                       ELSE <<>>)

extract_imprint_areas(sp) ==
    LET imprint_areas_section == sp.printMethods
    IN IF imprint_areas_section = None THEN <<>>
       ELSE [i \in 1..Len(imprint_areas_section[1].headings) |->
                MethodDetails(imprint_areas_section[1],
                              imprint_areas_section[1].headings[i])]

Pricing(quantities, prices) == ("Quantities" :> quantities) @@ ("Prices" :> prices)

\* get_text(strip=True).replace('&nbsp;', '')
CellText(cell) == Remove(get_text_strip(cell.text), "&nbsp;")

\* lines 201, 205: the list comprehensions over the cells
CellTexts(cells) == [i \in 1..Len(cells) |-> CellText(cells[i])]

\* line 204: the cells of the first body row that are read as prices
price_cells(price_row) == SelectTag(price_row, "th")

\* extract_pricing: a table without thead, without tbody or without a body
\* row raises AttributeError on None, caught, both lists empty
extract_pricing(product_detail) ==
    LET pricing_table == product_detail.pricetable
    IN IF pricing_table = None THEN Pricing(<<>>, <<>>)
       ELSE IF pricing_table[1].thead = None THEN Pricing(<<>>, <<>>)
       ELSE IF pricing_table[1].tbody = None THEN Pricing(<<>>, <<>>)
       ELSE IF pricing_table[1].tbody[1] = <<>> THEN Pricing(<<>>, <<>>)
       ELSE LET quantity_headers == Rest(SelectTag(pricing_table[1].thead[1], "th"))
                price_row == pricing_table[1].tbody[1][1]
            IN Pricing(CellTexts(quantity_headers),
                       CellTexts(price_cells(price_row)))

\* parse_detail_page: {} when the root is missing (ValueError, caught)
parse_detail_page(sp) ==
    IF sp.productDetail = None THEN EmptyDict
    ELSE ("SKU" :> extract_sku_detail(sp.productDetail[1])) @@
         ("Item Size" :> extract_item_size(sp.productDetail[1])) @@
         ("Imprint Areas" :> extract_imprint_areas(sp)) @@
         ("Pricing" :> extract_pricing(sp.productDetail[1]))


---------------------------------------------------------------------------
(* Display *)

\* display_data raises KeyError on product['Pricing'] (line 274) for a detail
\* record without that key; every other read goes through .get
display_data_raises(data, ptype) ==
    /\ ptype # "list"
    /\ \E i \in 1..Len(data) : "Pricing" \notin DOMAIN data[i]

---------------------------------------------------------------------------
(* Tabular Writer.  A line of the file is [kind, cells]: kind "header" for *)
(* the line to_csv writes for header=True, "data" for a row of the frame;  *)
(* a cell is a text, the empty text for NaN.                               *)

NaN == <<>>

ListColumns == <<"Product Name", "Product Description", "SKU", "Price">>

DetailColumns == <<"SKU", "Item Size", "Method", "Location", "Width", "Height">>

ColumnText(name) == <<name>>

ColumnTexts(names) == [i \in 1..Len(names) |-> ColumnText(names[i])]

\* dict.get(key, default)
Get(d, key, default) == IF key \in DOMAIN d THEN d[key] ELSE default

\* line 219: one frame row per record, a missing key gives NaN
ListRow(product) ==
    [j \in 1..Len(ListColumns) |-> Get(product, ListColumns[j], NaN)]

ListRows(data) == [i \in 1..Len(data) |-> ListRow(data[i])]

\* lines 229-239: the row dict of one (product, area, location), read at one
\* column of the frame: the zipped pricing pairs are assigned after the six
\* fixed keys, a later pair overwrites an earlier one, a missing key gives NaN
RowValue(product, area, location, column) ==
    LET quantities == product["Pricing"]["Quantities"]
        prices == product["Pricing"]["Prices"]
        n == Min(Len(quantities), Len(prices))
        hits == {i \in 1..n : quantities[i] = column}
        fixed == (ColumnText("SKU") :> Get(product, "SKU", NA)) @@
                 (ColumnText("Item Size") :> Get(product, "Item Size", NA)) @@
                 (ColumnText("Method") :> Get(area, "Method", NA)) @@
                 (ColumnText("Location") :> Get(location, "Location", NA)) @@
                 (ColumnText("Width") :> Get(location, "Width", NA)) @@
                 (ColumnText("Height") :> Get(location, "Height", NA))
    IN IF hits # {} THEN prices[CHOOSE i \in hits : \A k \in hits : k <= i]
       ELSE IF column \in DOMAIN fixed THEN fixed[column]
       ELSE NaN

\* line 222
detail_columns(data) ==
    ColumnTexts(DetailColumns) \o data[1]["Pricing"]["Quantities"]

DetailRow(product, area, location, columns) ==
    [j \in 1..Len(columns) |-> RowValue(product, area, location, columns[j])]

\* a method without locations given a row of its own
AreaRows_NeverEmpty(product, area, columns) ==
    IF area["Locations"] = <<>>
    THEN <<DetailRow(product, area, EmptyDict, columns)>>
    ELSE [k \in 1..Len(area["Locations"]) |->
            DetailRow(product, area, area["Locations"][k], columns)]

AreaRows(product, area, columns) ==
    [k \in 1..Len(area["Locations"]) |->
        DetailRow(product, area, area["Locations"][k], columns)]

ProductRows(product, columns) ==
    Flatten([a \in 1..Len(product["Imprint Areas"]) |->
                AreaRows(product, product["Imprint Areas"][a], columns)])

\* lines 225-240
detail_rows(data, columns) ==
    Flatten([i \in 1..Len(data) |-> ProductRows(data[i], columns)])

\* lines 222-240 raise IndexError on data[0] or KeyError on a missing key
save_to_csv_raises(data, ptype) ==
    /\ ptype # "list"
    /\ \/ data = <<>>
       \/ \E i \in 1..Len(data) :
            {"Pricing", "Imprint Areas"} \ DOMAIN data[i] # {}

\* lines 216-242: the frame, [columns, rows]
DataFrame(data, ptype) ==
    IF ptype = "list"
    THEN [columns |-> ColumnTexts(ListColumns),
          rows |-> ListRows(data)]
    ELSE [columns |-> detail_columns(data),
          rows |-> detail_rows(data, detail_columns(data))]

DataLines(rows) == [i \in 1..Len(rows) |-> [kind |-> "data", cells |-> rows[i]]]

\* line 245 without its test of the size
WritesHeader_NotExists(f) == ~f.exists

\* line 245: not os.path.isfile(file_path) or os.stat(file_path).st_size == 0
WritesHeader(f) == ~f.exists \/ f.lines = <<>>

\* lines 245-250: df.to_csv in mode 'w' with the header, or in mode 'a' without
to_csv(df, f) ==
    IF WritesHeader(f)
    THEN [exists |-> TRUE,
          lines |-> <<[kind |-> "header", cells |-> df.columns]>> \o DataLines(df.rows)]
    ELSE [exists |-> TRUE, lines |-> f.lines \o DataLines(df.rows)]

---------------------------------------------------------------------------
(* Markup: [empty, dom]. BeautifulSoup(html_content, 'html.parser') gives  *)
(* the tree of the markup.                                                 *)

BeautifulSoup(markup) == markup.dom

\* "if html_content is None" in the place of line 280
NoContent_IsNone(content) == content = None

\* not html_content: None or the empty string
NoContent(content) == IF content = None THEN TRUE ELSE content[1].empty

---------------------------------------------------------------------------
(* Bounds *)

MaxRuns == 3      \* processes run one after another on the same output file

MaxCards == 2     \* product cards of a listing page

MaxRows == 3      \* data rows of a location table

MaxOtherRows == 1 \* data rows of a location table under an unusual header

MaxTiers == 2     \* quantity tiers of a pricing table

---------------------------------------------------------------------------
(* Pages the driver can return *)

SeqsUpTo(S, n) == UNION {[1..k -> S] : k \in 0..n}

Soup(lh, pd, pm) == [listHolder |-> lh, productDetail |-> pd, printMethods |-> pm]

Markup(dom) == [empty |-> FALSE, dom |-> dom]

EmptyMarkup == [empty |-> TRUE, dom |-> Soup(None, None, None)]

BareDom == Soup(None, None, None)

\* cards
NameText == <<" ", "Pen", " ">>

DescText == <<"Blue", " ", "pen">>

SkuText == <<"SKU1", " ">>

PriceText == <<"$", "1">>

Card(a, ps, strong) == [a |-> a, ps |-> ps, strong |-> strong]

FullCard == Card(Some(NameText), <<DescText, SkuText>>, Some(PriceText))

NoSkuCard == Card(Some(NameText), <<DescText>>, Some(PriceText))

CardKinds ==
    {Card(a, ps, strong) :
        a \in {None, Some(NameText)},
        ps \in {<<>>, <<DescText>>, <<DescText, SkuText>>},
        strong \in {None, Some(PriceText)}}

ListHolder(cards) == Some([cards |-> cards])

\* location tables
Tr(ths, tds) == [ths |-> ths, tds |-> tds]

Front == <<"Front">>

Back == <<" ", "Back">>

Size12x8 == <<"1", "2", "\"", " ", "x", " ", "8", "\"">>

Size12p5X8 == <<" ", "1", "2", ".", "5", " ", "X", " ", "8">>

Garbage == <<"g", "a", "r", "b", "a", "g", "e">>

HalfSize == <<"1", "2", " ", "x">>

HeaderKinds ==
    {Tr(<<<<"Location">>, <<"Size">>>>, <<>>),
     Tr(<<<<"Size">>, <<"Location">>>>, <<>>),
     Tr(<<<<"Location">>>>, <<>>),
     Tr(<<<<" ", "LOCATION">>, <<"SIZE", " ">>>>, <<>>),
     Tr(<<<<"Other">>, <<"Location">>, <<"Size">>>>, <<>>)}

RowKinds ==
    {Tr(<<>>, <<Front>>),
     Tr(<<>>, <<Front, Size12x8>>),
     Tr(<<>>, <<Back, Size12p5X8>>),
     Tr(<<>>, <<Front, Garbage>>),
     Tr(<<>>, <<Back, HalfSize>>),
     Tr(<<>>, <<Size12p5X8, Back>>),
     Tr(<<>>, <<<<"x">>, Front, Size12x8>>)}

StdHeader == Tr(<<<<"Location">>, <<"Size">>>>, <<>>)

\* a decorative table that itself looks like a location table
Decor == <<StdHeader, Tr(<<>>, <<<<"Decor">>, Size12x8>>)>>

Panel(id, tables) == [id |-> id, tables |-> tables]

Button(text, target) == Some([text |-> text, target |-> target])

Heading(button) == [button |-> button]

Section(headings, panels) == Some([headings |-> headings, panels |-> panels])

Screen == <<"Screen", " ">>

Laser == <<"Laser">>

\* one method whose panel carries `table` as its third table
OneMethod(table) ==
    Section(<<Heading(Button(Screen, <<"#", "c1">>))>>,
            <<Panel(<<"c1">>, <<Decor, Decor, table>>)>>)

TwoValidOneInvalid ==
    <<StdHeader, Tr(<<>>, <<Front, Size12x8>>), Tr(<<>>, <<Front, Garbage>>),
      Tr(<<>>, <<Back, Size12p5X8>>)>>

OneValid == <<StdHeader, Tr(<<>>, <<Back, Size12p5X8>>)>>

TwoMethods ==
    Section(<<Heading(Button(Screen, <<"#", "c1">>)),
              Heading(Button(Laser, <<"#", "c2">>))>>,
            <<Panel(<<"c1">>, <<Decor, Decor, OneValid>>),
              Panel(<<"c2">>, <<Decor, Decor, TwoValidOneInvalid>>)>>)

SectionKinds ==
    {None,
     Section(<<>>, <<>>),
     Section(<<Heading(None)>>, <<Panel(<<"c1">>, <<Decor, Decor, OneValid>>)>>),
     Section(<<Heading(Button(Screen, <<>>))>>,
             <<Panel(<<>>, <<Decor, Decor, OneValid>>)>>),
     Section(<<Heading(Button(Screen, <<"#", "c9">>))>>,
             <<Panel(<<"c1">>, <<Decor, Decor, OneValid>>)>>),
     Section(<<Heading(Button(Screen, <<"#", "c1">>))>>,
             <<Panel(<<"c1">>, <<Decor, OneValid>>)>>),
     Section(<<Heading(Button(Screen, <<"#", "c1">>))>>,
             <<Panel(<<"c1">>, <<Decor, Decor, <<>>>>)>>),
     Section(<<Heading(Button(Screen, <<"#", "c2">>)),
               Heading(Button(Laser, <<"#", "c2">>))>>,
             <<Panel(<<"c1">>, <<Decor, Decor, OneValid>>),
               Panel(<<"c2">>, <<Decor, Decor, TwoValidOneInvalid>>)>>),
     TwoMethods}

\* the standard header over every sequence of rows, every other header over
\* the shorter ones
WideTables ==
    {<<StdHeader>> \o rows : rows \in SeqsUpTo(RowKinds, MaxRows)}
    \cup {<<h>> \o rows : h \in HeaderKinds, rows \in SeqsUpTo(RowKinds, MaxOtherRows)}

\* pricing tables
DigitTok == <<"1", "2", "3", "4", "5", "6", "7", "8", "9">>

TierText(i) == IF i = 2 THEN <<DigitTok[i], "50", "&nbsp;">> ELSE <<" ", DigitTok[i], "00">>

TierPrice(i) == <<"$", DigitTok[i]>>

Cell(tag, text) == [tag |-> tag, text |-> text]

QuantityLabel == <<"Quantity">>

PriceLabel == <<"Price", " ", "(5C)">>

Thead(labelTag, n) ==
    <<Cell(labelTag, QuantityLabel)>> \o [i \in 1..n |-> Cell("th", TierText(i))]

PriceRow(label, tag, m) == label \o [i \in 1..m |-> Cell(tag, TierPrice(i))]

SecondRow == <<Cell("th", <<"Setup">>), Cell("th", <<"$", "0">>)>>

PriceTable(thead, tbody) == Some([thead |-> thead, tbody |-> tbody])

TheadKinds ==
    {None} \cup {Some(Thead(tag, n)) : tag \in {"th", "td"}, n \in 0..MaxTiers}

TbodyKinds ==
    {None, Some(<<>>)} \cup
    {Some(<<PriceRow(label, tag, m)>> \o more) :
        label \in {<<>>, <<Cell("th", PriceLabel)>>, <<Cell("td", PriceLabel)>>},
        tag \in {"th", "td"},
        m \in 0..MaxTiers,
        more \in {<<>>, <<SecondRow>>}}

WidePriceTables ==
    {None} \cup {PriceTable(h, b) : h \in TheadKinds, b \in TbodyKinds}

\* label th, then the prices in td cells
TdPrices(n) ==
    PriceTable(Some(Thead("th", n)),
               Some(<<PriceRow(<<Cell("th", PriceLabel)>>, "td", n)>>))

\* every cell of the body row a th
ThPrices(n) ==
    PriceTable(Some(Thead("th", n)),
               Some(<<PriceRow(<<>>, "th", n), SecondRow>>))

\* detail roots
SkuP == Some(<<" ", "Item ID:", " ", "AB12", " ">>)

SizeH5 == Some([next |-> Some(<<" ", "4", "x", "6", " ">>)])

Detail(skuP, sizeH5, pricetable) ==
    Some([skuP |-> skuP, sizeH5 |-> sizeH5, pricetable |-> pricetable])

SkuKinds == {None, Some(<<"Item", " ", "AB12">>), SkuP,
             Some(<<"Item ID:", "A", "Item ID:", " ", "B">>)}

SizeKinds == {None, Some([next |-> None]), SizeH5}

StdDetail == Detail(SkuP, SizeH5, ThPrices(2))

\* the pages of the runs that share one output file
Pages ==
    {EmptyMarkup,
     Markup(BareDom),
     Markup(Soup(None, None, TwoMethods)),
     Markup(Soup(ListHolder(<<>>), None, None)),
     Markup(Soup(ListHolder(<<FullCard, NoSkuCard>>), None, None)),
     Markup(Soup(ListHolder(<<FullCard>>), StdDetail, TwoMethods)),
     Markup(Soup(None, StdDetail, OneMethod(TwoValidOneInvalid))),
     Markup(Soup(None, Detail(SkuP, SizeH5, ThPrices(1)), TwoMethods)),
     Markup(Soup(None, Detail(None, None, TdPrices(2)), OneMethod(OneValid))),
     Markup(Soup(None, Detail(SkuP, None, None), OneMethod(OneValid))),
     Markup(Soup(None, StdDetail, None)),
     Markup(Soup(None, StdDetail, OneMethod(<<StdHeader>>)))}

\* the pages of a single run: each part of the page varied over its kinds
WidePages ==
    {EmptyMarkup, Markup(BareDom)}
    \cup {Markup(Soup(ListHolder(cards), None, None)) :
            cards \in SeqsUpTo(CardKinds, MaxCards)}
    \cup {Markup(Soup(ListHolder(<<NoSkuCard>>), StdDetail, sec)) : sec \in SectionKinds}
    \cup {Markup(Soup(None, StdDetail, OneMethod(t))) : t \in WideTables}
    \cup {Markup(Soup(None, Detail(SkuP, SizeH5, pt), OneMethod(TwoValidOneInvalid))) :
            pt \in WidePriceTables}
    \cup {Markup(Soup(None, Detail(sku, size, ThPrices(1)), sec)) :
            sku \in SkuKinds, size \in SizeKinds, sec \in SectionKinds}
    \cup {Markup(Soup(None, None, sec)) : sec \in SectionKinds}

---------------------------------------------------------------------------
(* The process: __main__ builds a ProductScraper and calls scrape() once   *)

NoFile == [exists |-> FALSE, lines |-> <<>>]

EmptyFile == [exists |-> TRUE, lines |-> <<>>]

\* __init__, and an output file that does not exist yet or is empty
Init ==
    /\ pc = "start"
    /\ runs = 1
    /\ driver = "none"
    /\ page_source = None
    /\ html_content = None
    /\ soup = None
    /\ products_data = <<>>
    /\ pagetype = ""
    /\ log = <<>>
    /\ file \in {NoFile, EmptyFile}

\* line 28: the browser session starts
StartDriver ==
    /\ pc = "start"
    /\ driver' = "open"
    /\ pc' = "fc_get"
    /\ UNCHANGED <<runs, page_source, html_content, soup, products_data, pagetype, log, file>>

\* line 28 raises (no driver binary, no browser): no session exists
StartDriverFails ==
    /\ pc = "start"
    /\ pc' = "fc_except"
    /\ UNCHANGED <<runs, driver, page_source, html_content, soup, products_data, pagetype, log, file>>

\* line 29
DriverGet ==
    /\ pc = "fc_get"
    /\ pc' = "fc_wait"
    /\ UNCHANGED <<runs, driver, page_source, html_content, soup, products_data, pagetype, log, file>>

\* line 29 raises (invalid URL, network error)
DriverGetFails ==
    /\ pc = "fc_get"
    /\ pc' = "fc_except"
    /\ UNCHANGED <<runs, driver, page_source, html_content, soup, products_data, pagetype, log, file>>

\* lines 32-36: the marker shows up within the wait
WaitFound ==
    /\ pc = "fc_wait"
    /\ pc' = "fc_source"
    /\ UNCHANGED <<runs, driver, page_source, html_content, soup, products_data, pagetype, log, file>>

\* lines 37-38: the wait times out, the exception is caught and printed
WaitTimeout ==
    /\ pc = "fc_wait"
    /\ log' = Append(log, "Error waiting for dynamic content")
    /\ pc' = "fc_source"
    /\ UNCHANGED <<runs, driver, page_source, html_content, soup, products_data, pagetype, file>>

\* line 40
ReadPageSource(universe) ==
    /\ pc = "fc_source"
    /\ \E markup \in universe : page_source' = Some(markup)
    /\ pc' = "fc_quit"
    /\ UNCHANGED <<runs, driver, html_content, soup, products_data, pagetype, log, file>>

\* line 40 raises (the session died)
ReadPageSourceFails ==
    /\ pc = "fc_source"
    /\ pc' = "fc_except"
    /\ UNCHANGED <<runs, driver, page_source, html_content, soup, products_data, pagetype, log, file>>

\* lines 41-42, and the assignment of line 279
DriverQuit ==
    /\ pc = "fc_quit"
    /\ driver' = "quit"
    /\ html_content' = page_source
    /\ pc' = "scrape_check"
    /\ UNCHANGED <<runs, page_source, soup, products_data, pagetype, log, file>>

\* lines 44-46, and the assignment of line 279
FetchExcept ==
    /\ pc = "fc_except"
    /\ log' = Append(log, "Error fetching page content")
    /\ html_content' = None
    /\ pc' = "scrape_check"
    /\ UNCHANGED <<runs, driver, page_source, soup, products_data, pagetype, file>>

\* lines 280-282
ScrapeNoContent ==
    /\ pc = "scrape_check"
    /\ NoContent(html_content)
    /\ log' = Append(log, "Failed to fetch content.")
    /\ pc' = "done"
    /\ UNCHANGED <<runs, driver, page_source, html_content, soup, products_data, pagetype, file>>

\* the page classified by the detail root in the place of line 286
IsListing_NoDetailRoot(sp) == sp.productDetail = None

\* line 286
IsListing(sp) == sp.listHolder # None

\* lines 284-290
ScrapeListing ==
    /\ pc = "scrape_check"
    /\ ~NoContent(html_content)
    /\ LET sp == BeautifulSoup(html_content[1])
       IN /\ IsListing(sp)
          /\ soup' = Some(sp)
          /\ products_data' = products_data \o parse_listing_page(sp)
    /\ pagetype' = "list"
    /\ log' = log \o <<"Scraping a product listing page...", "parse_listing_page">>
    /\ pc' = "display"
    /\ UNCHANGED <<runs, driver, page_source, html_content, file>>

\* lines 284-285, 291-295
ScrapeDetail ==
    /\ pc = "scrape_check"
    /\ ~NoContent(html_content)
    /\ LET sp == BeautifulSoup(html_content[1])
       IN /\ ~IsListing(sp)
          /\ soup' = Some(sp)
          /\ products_data' = Append(products_data, parse_detail_page(sp))
    /\ pagetype' = "detail"
    /\ log' = log \o <<"Scraping a product detail page...", "parse_detail_page">>
    /\ pc' = "display"
    /\ UNCHANGED <<runs, driver, page_source, html_content, file>>

\* line 297: an exception of display_data leaves scrape() and ends the process
DisplayData ==
    /\ pc = "display"
    /\ log' = Append(log, "display_data")
    /\ pc' = IF display_data_raises(products_data, pagetype) THEN "raised" ELSE "save"
    /\ UNCHANGED <<runs, driver, page_source, html_content, soup, products_data, pagetype, file>>

\* line 298
SaveToCsv ==
    /\ pc = "save"
    /\ IF save_to_csv_raises(products_data, pagetype)
       THEN /\ file' = file
            /\ log' = Append(log, "save_to_csv")
            /\ pc' = "raised"
       ELSE /\ file' = to_csv(DataFrame(products_data, pagetype), file)
            /\ log' = log \o <<"save_to_csv", "Data saved to scraped_products.csv">>
            /\ pc' = "done"
    /\ UNCHANGED <<runs, driver, page_source, html_content, soup, products_data, pagetype>>

\* lines 301-304 again: the program is started once more, in a new process,
\* in the same working directory
NewRun ==
    /\ pc \in {"done", "raised"}
    /\ runs < MaxRuns
    /\ runs' = runs + 1
    /\ pc' = "start"
    /\ driver' = "none"
    /\ page_source' = None
    /\ html_content' = None
    /\ soup' = None
    /\ products_data' = <<>>
    /\ pagetype' = ""
    /\ log' = <<>>
    /\ UNCHANGED file

\* one run of the program, whatever the page
NextOnce ==
    \/ StartDriver
    \/ StartDriverFails
    \/ DriverGet
    \/ DriverGetFails
    \/ WaitFound
    \/ WaitTimeout
    \/ ReadPageSource(WidePages)
    \/ ReadPageSourceFails
    \/ DriverQuit
    \/ FetchExcept
    \/ ScrapeNoContent
    \/ ScrapeListing
    \/ ScrapeDetail
    \/ DisplayData
    \/ SaveToCsv

SpecOnce == Init /\ [][NextOnce]_vars

\* runs of the program one after another on the same output file
Next ==
    \/ StartDriver
    \/ StartDriverFails
    \/ DriverGet
    \/ DriverGetFails
    \/ WaitFound
    \/ WaitTimeout
    \/ ReadPageSource(Pages)
    \/ ReadPageSourceFails
    \/ DriverQuit
    \/ FetchExcept
    \/ ScrapeNoContent
    \/ ScrapeListing
    \/ ScrapeDetail
    \/ DisplayData
    \/ SaveToCsv
    \/ NewRun

Spec == Init /\ [][Next]_vars

---------------------------------------------------------------------------
(* Vocabulary of the properties *)

InLog(e) == \E i \in 1..Len(log) : log[i] = e

\* the run has left fetch_content
Fetched == pc \in {"scrape_check", "display", "save", "done", "raised"}

\* scrape() is over: it returned, or an exception left it
Ended == pc \in {"done", "raised"}

\* markup was fetched: html_content is a non-empty string
HasMarkup == html_content # None /\ ~html_content[1].empty

\* the number of (method, location) pairs of a detail record
PairCount(rec) ==
    Len(Flatten([a \in 1..Len(rec["Imprint Areas"]) |->
                    rec["Imprint Areas"][a]["Locations"]]))

\* the (method, location) index pairs of a detail record, in document order
Pairs(rec) ==
    Flatten([a \in 1..Len(rec["Imprint Areas"]) |->
                [k \in 1..Len(rec["Imprint Areas"][a]["Locations"]) |-> <<a, k>>]])

\* the rows handed to the writer by the run in progress
RowsHanded ==
    IF pagetype = "list" THEN Len(products_data) ELSE PairCount(products_data[1])

DataLinesOf(f) == SelectSeq(f.lines, LAMBDA l : l.kind = "data")

HeaderLinesOf(f) == SelectSeq(f.lines, LAMBDA l : l.kind = "header")

---------------------------------------------------------------------------
(* C1: in every run that fetched markup, no exception leaves scrape(): the *)
(* run goes through display and persist to its end, whatever markers the   *)
(* page holds.                                                             *)
C1_NoExceptionLeavesScrape == HasMarkup => pc # "raised"

---------------------------------------------------------------------------
(* C2: when fetch_content() yields None or empty markup, scrape() reports  *)
(* the failure and returns: no extractor, no display_data, no save_to_csv, *)
(* products_data empty, pagetype unset, the output file untouched, no      *)
(* exception.                                                              *)
C2_NoMarkup == html_content = None \/ html_content[1].empty

C2_AtEnd ==
    (Ended /\ C2_NoMarkup) =>
        /\ pc = "done"
        /\ InLog("Failed to fetch content.")
        /\ products_data = <<>>
        /\ pagetype = ""
        /\ soup = None
        /\ \A e \in {"parse_listing_page", "parse_detail_page", "display_data",
                     "save_to_csv"} : ~InLog(e)

\* C2: a run without markup ends by the return of line 282 with nothing
\* extracted, displayed or saved, and no step of it touches the file or raises
C2_FetchFailureEndsRun ==
    /\ []C2_AtEnd
    /\ [][C2_NoMarkup => file' = file /\ pc' # "raised"]_vars

\* a failed fetch in a run that follows a run which wrote the file
C2_Witness == Ended /\ C2_NoMarkup /\ runs = 2 /\ Len(file.lines) > 1

---------------------------------------------------------------------------
(* C3: the page type is decided once per run and never changes: 'list' iff *)
(* the parsed page holds div#productListHolder, else 'detail'. A listing   *)
(* run runs only the Listing Extractor and accumulates all its records, a  *)
(* detail run runs only the Detail Extractor and appends exactly one       *)
(* record; the header the writer writes is the layout of that page type.   *)
C3_Decided ==
    pagetype # "" =>
        /\ soup # None
        /\ pagetype \in {"list", "detail"}
        /\ pagetype = "list" <=> soup[1].listHolder # None
        /\ pagetype = "list" =>
              /\ ~InLog("parse_detail_page")
              /\ Len(products_data) = Len(soup[1].listHolder[1].cards)
        /\ pagetype = "detail" =>
              /\ ~InLog("parse_listing_page")
              /\ Len(products_data) = 1

C3_Layout ==
    (pc = "done" /\ pagetype # "") =>
        LET header == file.lines[1].cells
        IN IF pagetype = "list"
           THEN header = <<<<"Product Name">>, <<"Product Description">>,
                           <<"SKU">>, <<"Price">>>>
           ELSE header = <<<<"SKU">>, <<"Item Size">>, <<"Method">>, <<"Location">>,
                           <<"Width">>, <<"Height">>>>
                         \o products_data[1]["Pricing"]["Quantities"]

\* C3: the page type follows the listing root, the records and the header
\* follow the page type, and the page type, once set, stays
C3_PageTypeDecidedOnce ==
    /\ [](C3_Decided /\ C3_Layout)
    /\ [][pagetype # "" => pagetype' = pagetype]_vars

\* a page with both roots went through the writer as a listing
C3_Witness ==
    /\ pc = "done"
    /\ pagetype = "list"
    /\ soup[1].productDetail # None
    /\ Len(file.lines) = 2

---------------------------------------------------------------------------
(* C4: writes to one output path that starts nonexistent or empty: the     *)
(* first write puts a header row and its data rows, every later write      *)
(* appends its data rows without a header; the file holds exactly one      *)
(* header row, its first line, and a write of k rows adds exactly k data   *)
(* rows after the rows already there; no row is ever removed.              *)
C4_OneHeaderFirst ==
    file.lines # <<>> =>
        /\ file.exists
        /\ file.lines[1].kind = "header"
        /\ \A i \in 2..Len(file.lines) : file.lines[i].kind = "data"

C4_Write ==
    (pc = "save" /\ pc' = "done") =>
        /\ Len(DataLinesOf(file')) = Len(DataLinesOf(file)) + RowsHanded
        /\ Len(HeaderLinesOf(file')) = 1
        /\ file.lines # <<>> => SubSeq(file'.lines, 1, Len(file.lines)) = file.lines

\* C4: one header line, the first; a write adds exactly its rows at the end;
\* only a write changes the file
C4_AppendOnly ==
    /\ []C4_OneHeaderFirst
    /\ [][C4_Write /\ (file' # file => pc = "save")]_vars

\* the third write has appended rows to a file that already held rows
C4_Witness ==
    /\ runs = 3
    /\ pc = "done"
    /\ InLog("save_to_csv")
    /\ RowsHanded > 0
    /\ Len(DataLinesOf(file)) > RowsHanded + 1

---------------------------------------------------------------------------
---------------------------------------------------------------------------
(* C6: extract_locations keeps a data row of the panel's third table iff   *)
(* the row has cells at both the 'location' and the 'size' column index    *)
(* and the Size Parser returns a width and a height for its size cell;     *)
(* every kept location has its width and height, the order is the row      *)
(* order, and nothing is kept when the panel is missing, has fewer than    *)
(* three tables, or the header lacks 'location' or 'size'.                 *)
C6_Panel(section, heading) ==
    IF heading.button = None THEN None
    ELSE IF heading.button[1].target = <<>> THEN None
    ELSE FindPanel(section.panels, StripChars(heading.button[1].target, {"#"}))

\* the rows of the third table (positions in the table) that are to be kept
C6_Kept(table) ==
    LET headers == TableHeaders(table)
    IN IF ~Contains(headers, <<"location">>) \/ ~Contains(headers, <<"size">>)
       THEN {}
       ELSE LET li == IndexOf(headers, <<"location">>)
                si == IndexOf(headers, <<"size">>)
            IN {r \in 2..Len(table) :
                    /\ Len(table[r].tds) >= li
                    /\ Len(table[r].tds) >= si
                    /\ LET wh == extract_size(get_text_strip(table[r].tds[si]))
                       IN wh[1] # None /\ wh[2] # None}

C6_Nth(S, k) == CHOOSE r \in S : Cardinality({q \in S : q < r}) = k - 1

C6_MethodOk(section, heading, locations) ==
    LET panel == C6_Panel(section, heading)
    IN IF panel = None THEN locations = <<>>
       ELSE IF Len(panel[1].tables) < 3 THEN locations = <<>>
       ELSE LET table == panel[1].tables[3]
                kept == C6_Kept(table)
                li == IndexOf(TableHeaders(table), <<"location">>)
                si == IndexOf(TableHeaders(table), <<"size">>)
            IN /\ Len(locations) = Cardinality(kept)
               /\ \A k \in 1..Len(locations) :
                    LET tds == table[C6_Nth(kept, k)].tds
                        wh == extract_size(get_text_strip(tds[si]))
                    IN /\ locations[k]["Location"] = get_text_strip(tds[li])
                       /\ locations[k]["Width"] = wh[1][1]
                       /\ locations[k]["Height"] = wh[2][1]
                       /\ locations[k]["Width"] \notin {<<>>, NA}
                       /\ locations[k]["Height"] \notin {<<>>, NA}

\* C6: the locations of every method are exactly the rows to be kept, in order
C6_LocationsKeptIffSized ==
    (pagetype = "detail" /\ soup[1].productDetail # None /\ soup[1].printMethods # None) =>
        LET section == soup[1].printMethods[1]
            areas == products_data[1]["Imprint Areas"]
        IN /\ Len(areas) = Len(section.headings)
           /\ \A i \in 1..Len(areas) :
                C6_MethodOk(section, section.headings[i], areas[i]["Locations"])

\* a short row, a row of unparseable size and a valid row: one location kept
C6_Witness ==
    /\ pagetype = "detail"
    /\ soup[1].productDetail # None
    /\ soup[1].printMethods =
          OneMethod(<<StdHeader, Tr(<<>>, <<Front>>), Tr(<<>>, <<Back, HalfSize>>),
                      Tr(<<>>, <<Back, Size12p5X8>>)>>)
    /\ Len(products_data[1]["Imprint Areas"][1]["Locations"]) = 1

---------------------------------------------------------------------------
(* C7: on a page with the listing root parse_listing_page gives one record *)
(* per product card, in document order, its four fields a text or 'N/A';   *)
(* the SKU is the text of the card's second 'link-item' paragraph when it  *)
(* has two, 'N/A' otherwise. Two cards, the second without its second      *)
(* paragraph, give 2 output rows, the SKU of the second being 'N/A'.       *)
C7_Field(tag) == IF tag = None THEN NA ELSE get_text_strip(tag[1])

C7_Records ==
    LET cards == soup[1].listHolder[1].cards
    IN /\ Len(products_data) = Len(cards)
       /\ \A i \in 1..Len(cards) :
            /\ DOMAIN products_data[i] =
                   {"Product Name", "Product Description", "SKU", "Price"}
            /\ products_data[i]["Product Name"] = C7_Field(cards[i].a)
            /\ products_data[i]["Product Description"] =
                   (IF cards[i].ps = <<>> THEN NA ELSE get_text_strip(cards[i].ps[1]))
            /\ products_data[i]["SKU"] =
                   (IF Len(cards[i].ps) >= 2 THEN get_text_strip(cards[i].ps[2]) ELSE NA)
            /\ products_data[i]["Price"] = C7_Field(cards[i].strong)

C7_Rows ==
    LET cards == soup[1].listHolder[1].cards
        rows == DataLinesOf(file)
    IN /\ Len(rows) = Len(cards)
       /\ \A i \in 1..Len(rows) :
            rows[i].cells = <<products_data[i]["Product Name"],
                              products_data[i]["Product Description"],
                              products_data[i]["SKU"],
                              products_data[i]["Price"]>>
       /\ cards = <<FullCard, NoSkuCard>> =>
            Len(rows) = 2 /\ rows[1].cells[3] = <<"SKU1">> /\ rows[2].cells[3] = NA

\* C7: one record and one output row per card, the SKU from the second paragraph
C7_OneRecordPerCard ==
    /\ pagetype = "list" => C7_Records
    /\ (pagetype = "list" /\ pc = "done") => C7_Rows

C7_Witness ==
    /\ pagetype = "list"
    /\ pc = "done"
    /\ soup[1].listHolder[1].cards = <<FullCard, NoSkuCard>>
    /\ Len(file.lines) = 3

---------------------------------------------------------------------------
(* C8: on a page with a pricing table extract_pricing gives as Quantities  *)
(* the header-row cells but the first, as Prices the cells of the first    *)
(* body row, none skipped; for a header of one label cell and n tier cells *)
(* over a first body row of n price cells both lists have length n, and    *)
(* every tier column of every output row is filled.                        *)
C8_WellFormed(table, n) ==
    /\ Len(table.thead[1]) = n + 1
    /\ Len(table.tbody[1][1]) = n

\* C8: Quantities are the header cells but the first, Prices every cell of the
\* first body row, of equal length n on a well-formed table
C8_PricesAreFirstBodyRow ==
    (/\ pagetype = "detail"
     /\ soup[1].productDetail # None
     /\ soup[1].productDetail[1].pricetable # None
     /\ soup[1].productDetail[1].pricetable[1].thead # None
     /\ soup[1].productDetail[1].pricetable[1].tbody # None
     /\ soup[1].productDetail[1].pricetable[1].tbody[1] # <<>>) =>
        LET table == soup[1].productDetail[1].pricetable[1]
            pricing == products_data[1]["Pricing"]
        IN /\ pricing["Quantities"] = CellTexts(Rest(table.thead[1]))
           /\ pricing["Prices"] = CellTexts(table.tbody[1][1])
           /\ \A n \in 0..Len(table.thead[1]) :
                C8_WellFormed(table, n) =>
                    /\ Len(pricing["Quantities"]) = n
                    /\ Len(pricing["Prices"]) = n
                    /\ pc = "done" =>
                         \A i \in 1..Len(DataLinesOf(file)) :
                            \A j \in 7..(6 + n) : DataLinesOf(file)[i].cells[j] # <<>>

---------------------------------------------------------------------------
(* C9: after any sequence of runs on one output file every data row of the *)
(* file has as many columns as the file's header row, with the same        *)
(* meaning.                                                                *)
C9_RowsFitHeader ==
    \A i \in 2..Len(file.lines) :
        Len(file.lines[i].cells) = Len(file.lines[1].cells)

---------------------------------------------------------------------------
(* C10: every browser session fetch_content starts is released             *)
(* (driver.quit) before fetch_content returns, on every path.              *)
C10_DriverReleased == Fetched => driver # "open"

==========================================================================
